---- MODULE Spec2Model ----
(***************************************************************************)
(* A model of sync.py: the Spotify -> Tidal playlist synchroniser.         *)
(*                                                                         *)
(* Four specifications share the variables below.                          *)
(*   Spec              sync_list, run MaxRuns times in a row on one        *)
(*                     configuration (the whole program).                  *)
(*   SpecSyncPlaylist  one call of sync_playlist on an arbitrary source    *)
(*                     track list and an arbitrary destination playlist.   *)
(*   SpecMatch         the pure functions duration_match and match applied *)
(*                     to inputs drawn from bounded sets.                  *)
(*   SpecSimplify      simplify and the search query of tidal_search       *)
(*                     applied to strings built from a few pieces; a       *)
(*                     string is a sequence of one-character strings.      *)
(*                                                                         *)
(* The results of the external fuzzy comparisons (thefuzz) of a candidate  *)
(* with the source track are inputs: a candidate carries the three scores  *)
(* the library returns for it.  Durations are integers: seconds on the     *)
(* Tidal side, milliseconds on the Spotify side, as in the two APIs.       *)
(***************************************************************************)
EXTENDS Integers, Sequences, FiniteSets, TLC

VARIABLES
    spotify,          \* the source service: playlist id -> playlist (or an inaccessible id)
    startup,          \* what the program finds when started: [check_login, sync_playlists_set]
    config,           \* config['sync_playlists']: the configured source playlist ids
    tidal,            \* the destination service: the user's playlists, in listing order
    nextId,           \* the id the destination gives to the next created playlist
    run,              \* which run of the program this is (1..MaxRuns)
    pc,               \* the position of the main process
    tidal_playlists,  \* sync_list's listing of the user's playlists (line 125)
    index,            \* sync_list's loop position in config, 1-based
    spotify_playlist, \* the source playlist id of the current iteration
    tidal_playlist,   \* the id of the destination playlist handed to sync_playlist
    spotify_tracks,   \* sync_playlist's source track list
    task,             \* pool: position -> "pending" | "running" | "done"
    outcome,          \* pool: position -> what the worker's tidal_search gave
    completed,        \* pool: the positions in the order their tasks completed
    searches,         \* pool: position -> number of tidal_session.search calls issued
    tidal_tracks,     \* what call_async returned to sync_playlist
    warnings,         \* the positions printed by "track n.{} not found"
    ops,              \* log of the calls issued to the destination service
    history,          \* the destination and the exit position at the start of each run
    probe             \* SpecMatch, SpecSimplify: a pure function's inputs and output

vars == <<spotify, startup, config, tidal, nextId, run, pc, tidal_playlists, index,
          spotify_playlist, tidal_playlist, spotify_tracks, task, outcome,
          completed, searches, tidal_tracks, warnings, ops, history, probe>>

syncVars == <<spotify, startup, config, tidal, nextId, run, pc, tidal_playlists, index,
              spotify_playlist, tidal_playlist, spotify_tracks, task, outcome,
              completed, searches, tidal_tracks, warnings, ops, history>>

(***************************************************************************)
(* Bounds of the model and constants of the program.                       *)
(***************************************************************************)
MaxConfig == 2

MaxRuns == 2

MaxTracks == 3

PoolSize == 50

Tolerance == 2

NameThreshold == 90

ArtistThreshold == 80

AlbumThreshold == 90

(***************************************************************************)
(* Helpers.                                                                *)
(***************************************************************************)
Abs(x) == IF x < 0 THEN -x ELSE x

SeqsUpTo(S, n) == UNION {[1..k -> S] : k \in 0..n}

\* Python's None, and the exception a worker's search call raised.
None == [none |-> TRUE]

Raised == [raised |-> TRUE]

\* Python truthiness of a tidal_search result ("if tidal_track:", line 116).
Truthy(x) == x # None

(***************************************************************************)
(* Matcher (lines 38-72).  A Tidal track t is a record                     *)
(*   [id, name_ratio, artist_ratio, album_ratio, duration]                 *)
(* where the three ratios are what thefuzz returns when t is compared with *)
(* the source track in hand; a Spotify track is [key, duration_ms].        *)
(***************************************************************************)
partial_ratio(tidal_track, spotify_track) == tidal_track.name_ratio

token_set_ratio(tidal_track, spotify_track) == tidal_track.artist_ratio

ratio(tidal_track, spotify_track) == tidal_track.album_ratio

name_match(tidal_track, spotify_track) ==
    partial_ratio(tidal_track, spotify_track) >= NameThreshold

artist_match(tidal_track, spotify_track) ==
    token_set_ratio(tidal_track, spotify_track) >= ArtistThreshold

\* Variant: a tolerance that is not strict.
duration_match_le(tidal_track, spotify_track, tolerance) ==
    Abs(1000 * tidal_track.duration - spotify_track.duration_ms) <= 1000 * tolerance

\* abs(tidal_track.duration - spotify_track['duration_ms'] / 1000) < tolerance,
\* both sides multiplied by 1000 (the division is Python's true division).
duration_match(tidal_track, spotify_track, tolerance) ==
    Abs(1000 * tidal_track.duration - spotify_track.duration_ms) < 1000 * tolerance

album_match(tidal_track, spotify_track) ==
    ratio(tidal_track, spotify_track) >= AlbumThreshold

\* list.count(True)
RECURSIVE count(_, _)
count(list, x) ==
    IF list = <<>> THEN 0
    ELSE (IF Head(list) = x THEN 1 ELSE 0) + count(Tail(list), x)

signals(tidal_track, spotify_track) ==
    << name_match(tidal_track, spotify_track),
       artist_match(tidal_track, spotify_track),
       duration_match(tidal_track, spotify_track, Tolerance),
       album_match(tidal_track, spotify_track) >>

\* Variant: a verdict that two signals suffice for.
match_two(tidal_track, spotify_track) ==
    count(signals(tidal_track, spotify_track), TRUE) >= 2

match(tidal_track, spotify_track) ==
    count(signals(tidal_track, spotify_track), TRUE) >= 3

(***************************************************************************)
(* Resolver (lines 75-81): the loop over the tracks of the search          *)
(* response.  The response is what tidal_session.search(query) did:        *)
(* [raised |-> FALSE, tracks |-> the sequence of Tidal tracks it gave], or *)
(* raised |-> TRUE when the call raised, which tidal_search does not       *)
(* catch.  Falling off the loop returns None.                              *)
(***************************************************************************)
RECURSIVE first_match(_, _)
first_match(tracks, spotify_track) ==
    IF tracks = <<>> THEN None
    ELSE IF match(Head(tracks), spotify_track) THEN Head(tracks)
    ELSE first_match(Tail(tracks), spotify_track)

\* Variant: the loop keeps going and the last satisfying track wins.
RECURSIVE last_match(_, _)
last_match(tracks, spotify_track) ==
    IF tracks = <<>> THEN None
    ELSE IF match(tracks[Len(tracks)], spotify_track) THEN tracks[Len(tracks)]
    ELSE last_match(SubSeq(tracks, 1, Len(tracks) - 1), spotify_track)

tidal_search_last(spotify_track, response) ==
    IF response.raised THEN Raised ELSE last_match(response.tracks, spotify_track)

tidal_search(spotify_track, response) ==
    IF response.raised THEN Raised ELSE first_match(response.tracks, spotify_track)

(***************************************************************************)
(* The two services.  The source catalogue of Spec: three accessible       *)
(* playlists, two of them with the same name, and one inaccessible id.     *)
(* The destination's answer to the search for a source track is a function *)
(* of the track (the query is built from the track alone, lines 76-78).    *)
(***************************************************************************)
TrackA == [key |-> 1, duration_ms |-> 200000]

TrackB == [key |-> 2, duration_ms |-> 180000]

TrackC == [key |-> 3, duration_ms |-> 210000]

TrackD == [key |-> 4, duration_ms |-> 240000]

Tracks == {TrackA, TrackB, TrackC, TrackD}

TidalTrack(id, n, a, al, d) ==
    [id |-> id, name_ratio |-> n, artist_ratio |-> a, album_ratio |-> al, duration |-> d]

\* A: one candidate, all four signals.  B: no candidates.  C: one candidate,
\* title and duration only.  D: three candidates, the second the first match.
SearchTracks(spotify_track) ==
    CASE spotify_track = TrackA -> << TidalTrack(11, 100, 100, 100, 201) >>
      [] spotify_track = TrackB -> << >>
      [] spotify_track = TrackC -> << TidalTrack(13, 95, 40, 30, 210) >>
      [] spotify_track = TrackD -> << TidalTrack(14, 100, 30, 20, 240),
                                      TidalTrack(15, 92, 85, 60, 241),
                                      TidalTrack(16, 100, 100, 100, 240) >>

\* What tidal_session.search can do for a track: answer, or raise.
Responses(spotify_track) ==
    { [raised |-> FALSE, tracks |-> SearchTracks(spotify_track)],
      [raised |-> TRUE, tracks |-> << >>] }

SpotifyPlaylist(name, description, tracks) ==
    [ok |-> TRUE, name |-> name, description |-> description, tracks |-> tracks]

\* spotify_session.playlist(id) raises SpotifyException for such an id.
Inaccessible == [ok |-> FALSE, name |-> "", description |-> "", tracks |-> << >>]

Catalogue ==
    << SpotifyPlaylist("Chill", "d1", << TrackA, TrackB, TrackC >>),
       SpotifyPlaylist("Chill", "d2", << TrackD, TrackA >>),
       SpotifyPlaylist("Focus", "d3", << >>),
       Inaccessible >>

TidalPlaylist(id, name, description, tracks) ==
    [id |-> id, name |-> name, description |-> description, tracks |-> tracks]

\* The destinations a run of Spec can start from.
InitialTidal ==
    { << >>,
      << TidalPlaylist(1, "Chill", "old", << 99 >>) >>,
      << TidalPlaylist(1, "Other", "o", << 98 >>), TidalPlaylist(2, "Chill", "old", << >>) >>,
      << TidalPlaylist(1, "Chill", "old", << 99 >>), TidalPlaylist(2, "Chill", "older", << 98 >>) >> }

\* The contents a destination playlist handed to sync_playlist can have.
PriorContents == { << >>, << 99 >> }

Exists(playlists, id) == \E k \in DOMAIN playlists : playlists[k].id = id

Remove(playlists, id) == SelectSeq(playlists, LAMBDA p : p.id # id)

Op(op, id, tracks) ==
    [op |-> op, run |-> run, index |-> index, id |-> id, tracks |-> tracks]

(***************************************************************************)
(* The program's entry (lines 144-157).  The configuration is read and the *)
(* two sessions are opened (lines 145-149; open_spotify_session and        *)
(* open_tidal_session belong to auth.py and are taken to return).          *)
(***************************************************************************)
\* Lines 150-152: the Tidal login does not hold; a message, sys.exit().
check_login_failed ==
    /\ pc = "main"
    /\ ~startup.check_login
    /\ pc' = "exit"
    /\ UNCHANGED <<spotify, startup, config, tidal, nextId, run, tidal_playlists, index,
                   spotify_playlist, tidal_playlist, spotify_tracks, task, outcome,
                   completed, searches, tidal_tracks, warnings, ops, history, probe>>

\* Lines 153, 155-157: config['sync_playlists'] is None; a message,
\* sys.exit().
sync_playlists_none ==
    /\ pc = "main"
    /\ startup.check_login
    /\ ~startup.sync_playlists_set
    /\ pc' = "exit"
    /\ UNCHANGED <<spotify, startup, config, tidal, nextId, run, tidal_playlists, index,
                   spotify_playlist, tidal_playlist, spotify_tracks, task, outcome,
                   completed, searches, tidal_tracks, warnings, ops, history, probe>>

\* Lines 153-154: sync_list is called.
main ==
    /\ pc = "main"
    /\ startup.check_login
    /\ startup.sync_playlists_set
    /\ pc' = "sync_list"
    /\ UNCHANGED <<spotify, startup, config, tidal, nextId, run, tidal_playlists, index,
                   spotify_playlist, tidal_playlist, spotify_tracks, task, outcome,
                   completed, searches, tidal_tracks, warnings, ops, history, probe>>

(***************************************************************************)
(* sync_list (lines 123-142).                                              *)
(***************************************************************************)
\* Lines 124-125: the listing of the user's playlists, taken once.
sync_list ==
    /\ pc = "sync_list"
    /\ tidal_playlists' = [k \in DOMAIN tidal |-> [id |-> tidal[k].id, name |-> tidal[k].name]]
    /\ index' = 1
    /\ pc' = "loop"
    /\ UNCHANGED <<spotify, startup, config, tidal, nextId, run, spotify_playlist, tidal_playlist,
                   spotify_tracks, task, outcome, completed, searches, tidal_tracks,
                   warnings, ops, history, probe>>

\* Lines 127-128: spotify_session.playlist(spotify_id) succeeds.
get_playlist ==
    /\ pc = "loop"
    /\ index <= Len(config)
    /\ spotify[config[index]].ok
    /\ spotify_playlist' = config[index]
    /\ pc' = "delete"
    /\ UNCHANGED <<spotify, startup, config, tidal, nextId, run, tidal_playlists, index,
                   tidal_playlist, spotify_tracks, task, outcome, completed, searches,
                   tidal_tracks, warnings, ops, history, probe>>

\* Variant: the handler leaves the loop instead of continuing it.
playlist_unavailable_break ==
    /\ pc = "loop"
    /\ index <= Len(config)
    /\ ~spotify[config[index]].ok
    /\ pc' = "done"
    /\ UNCHANGED <<spotify, startup, config, tidal, nextId, run, tidal_playlists, index,
                   spotify_playlist, tidal_playlist, spotify_tracks, task, outcome,
                   completed, searches, tidal_tracks, warnings, ops, history, probe>>

\* Lines 129-131: SpotifyException is caught, a message printed, and the
\* loop continues with the next id.
playlist_unavailable ==
    /\ pc = "loop"
    /\ index <= Len(config)
    /\ ~spotify[config[index]].ok
    /\ index' = index + 1
    /\ UNCHANGED <<spotify, startup, config, tidal, nextId, run, pc, tidal_playlists,
                   spotify_playlist, tidal_playlist, spotify_tracks, task, outcome,
                   completed, searches, tidal_tracks, warnings, ops, history, probe>>

\* The loop of line 126 is exhausted: sync_list returns and the program ends.
sync_list_return ==
    /\ pc = "loop"
    /\ index > Len(config)
    /\ pc' = "done"
    /\ UNCHANGED <<spotify, startup, config, tidal, nextId, run, tidal_playlists, index,
                   spotify_playlist, tidal_playlist, spotify_tracks, task, outcome,
                   completed, searches, tidal_tracks, warnings, ops, history, probe>>

\* Variant: the listing is never found to hold the name.
no_stale(listing, name) == << >>

\* The entries of the listing with the source playlist's name (lines 133-135):
\* any(...) asks whether there is one, next(...) takes the first.
stale(listing, name) == SelectSeq(listing, LAMBDA p : p.name = name)

\* Variant: the playlist looked for is searched among the playlists the user
\* has now, not in the listing taken at the start.
delete_stale_live ==
    /\ pc = "delete"
    /\ LET found == stale(tidal, spotify[spotify_playlist].name)
       IN  IF found = << >>
           THEN /\ pc' = "create"
                /\ UNCHANGED <<tidal, ops>>
           ELSE IF Exists(tidal, found[1].id)
           THEN /\ tidal' = Remove(tidal, found[1].id)
                /\ ops' = Append(ops, Op("delete", found[1].id, << >>))
                /\ pc' = "create"
           ELSE /\ pc' = "raised"
                /\ UNCHANGED <<tidal, ops>>
    /\ UNCHANGED <<spotify, startup, config, nextId, run, tidal_playlists, index,
                   spotify_playlist, tidal_playlist, spotify_tracks, task, outcome,
                   completed, searches, tidal_tracks, warnings, history, probe>>

\* Lines 133-135.  tidal_session.playlist(id) fetches the playlist by id, so
\* it raises when the listed playlist is no longer there; nothing catches it.
delete_stale ==
    /\ pc = "delete"
    /\ LET found == stale(tidal_playlists, spotify[spotify_playlist].name)
       IN  IF found = << >>
           THEN /\ pc' = "create"
                /\ UNCHANGED <<tidal, ops>>
           ELSE IF Exists(tidal, found[1].id)
           THEN /\ tidal' = Remove(tidal, found[1].id)
                /\ ops' = Append(ops, Op("delete", found[1].id, << >>))
                /\ pc' = "create"
           ELSE /\ pc' = "raised"
                /\ UNCHANGED <<tidal, ops>>
    /\ UNCHANGED <<spotify, startup, config, nextId, run, tidal_playlists, index,
                   spotify_playlist, tidal_playlist, spotify_tracks, task, outcome,
                   completed, searches, tidal_tracks, warnings, history, probe>>

\* Variant: sync_playlist is handed the first of the user's playlists.
create_playlist_first ==
    /\ pc = "create"
    /\ tidal' = Append(tidal, TidalPlaylist(nextId, spotify[spotify_playlist].name,
                                            spotify[spotify_playlist].description, << >>))
    /\ ops' = Append(ops, Op("create", nextId, << >>))
    /\ tidal_playlist' = tidal'[1].id
    /\ nextId' = nextId + 1
    /\ pc' = "sync_playlist"
    /\ UNCHANGED <<spotify, startup, config, run, tidal_playlists, index, spotify_playlist,
                   spotify_tracks, task, outcome, completed, searches, tidal_tracks,
                   warnings, history, probe>>

\* Line 137: tidal_user.create_playlist(name, description): a new, empty
\* playlist with a fresh id.
create_playlist ==
    /\ pc = "create"
    /\ tidal' = Append(tidal, TidalPlaylist(nextId, spotify[spotify_playlist].name,
                                            spotify[spotify_playlist].description, << >>))
    /\ ops' = Append(ops, Op("create", nextId, << >>))
    /\ tidal_playlist' = nextId
    /\ nextId' = nextId + 1
    /\ pc' = "sync_playlist"
    /\ UNCHANGED <<spotify, startup, config, run, tidal_playlists, index, spotify_playlist,
                   spotify_tracks, task, outcome, completed, searches, tidal_tracks,
                   warnings, history, probe>>

\* Line 142 and the next turn of the loop.
next_playlist ==
    /\ pc = "synced"
    /\ index' = index + 1
    /\ pc' = "loop"
    /\ UNCHANGED <<spotify, startup, config, tidal, nextId, run, tidal_playlists,
                   spotify_playlist, tidal_playlist, spotify_tracks, task, outcome,
                   completed, searches, tidal_tracks, warnings, ops, history, probe>>

\* The program is started again (lines 144-157) on the same configuration,
\* after it ended, exited or died of an uncaught exception.
rerun ==
    /\ pc \in {"done", "raised", "exit"}
    /\ run < MaxRuns
    /\ run' = run + 1
    /\ history' = Append(history, [tidal |-> tidal, pc |-> pc])
    /\ pc' = "main"
    /\ UNCHANGED <<spotify, startup, config, tidal, nextId, tidal_playlists, index,
                   spotify_playlist, tidal_playlist, spotify_tracks, task, outcome,
                   completed, searches, tidal_tracks, warnings, ops, probe>>

(***************************************************************************)
(* sync_playlist (lines 111-120), call_async (lines 90-96) and the pool's  *)
(* workers, each running tidal_search on one track.                        *)
(***************************************************************************)
\* Lines 113, 92-94: the track list is fetched, results allocated and the
\* tracks handed to the pool.
get_tracks ==
    /\ pc = "sync_playlist"
    /\ LET tracks == spotify[spotify_playlist].tracks
       IN  /\ spotify_tracks' = tracks
           /\ task' = [i \in DOMAIN tracks |-> "pending"]
           /\ outcome' = [i \in DOMAIN tracks |-> None]
           /\ searches' = [i \in DOMAIN tracks |-> 0]
    /\ completed' = << >>
    /\ tidal_tracks' = << >>
    /\ warnings' = << >>
    /\ pc' = "call_async"
    /\ UNCHANGED <<spotify, startup, config, tidal, nextId, run, tidal_playlists, index,
                   spotify_playlist, tidal_playlist, ops, history, probe>>

\* pool.map (line 94) cuts the n tracks into chunks of chunksize tracks,
\* n divided by four times the number of workers, rounded up: 1 for up to
\* 200 tracks.  A chunk is one task of the pool: the worker that takes it
\* runs tidal_search on its tracks one after the other, and a search that
\* raises ends the chunk, its remaining tracks never being searched.
chunksize(n) == (n + 4 * PoolSize - 1) \div (4 * PoolSize)

\* The positions of the chunk that position i belongs to.
chunk(i) ==
    {j \in DOMAIN task :
        (j - 1) \div chunksize(Len(task)) = (i - 1) \div chunksize(Len(task))}

\* The chunk of position i is over: each of its tracks has been searched,
\* or one of its searches raised.
chunk_over(i) ==
    \/ \A j \in chunk(i) : task[j] = "done"
    \/ \E j \in chunk(i) : task[j] = "done" /\ outcome[j] = Raised

\* The first positions of the chunks a worker holds: taken and not over.
busy ==
    {i \in DOMAIN task :
        /\ \A j \in chunk(i) : i <= j
        /\ task[i] # "pending"
        /\ ~chunk_over(i)}

\* A worker runs tidal_search(spotify_tracks[i]) up to its call of
\* tidal_session.search (lines 76-79): the search is issued and the worker
\* waits for the answer.  It is a free worker of Pool(50) taking the chunk
\* that track i begins, or the worker that holds the chunk of track i and
\* has had the answer for track i - 1.
worker_start(i) ==
    /\ pc = "call_async"
    /\ task[i] = "pending"
    /\ IF \A j \in chunk(i) : i <= j
       THEN Cardinality(busy) < PoolSize
       ELSE task[i - 1] = "done" /\ outcome[i - 1] # Raised
    /\ task' = [task EXCEPT ![i] = "running"]
    /\ searches' = [searches EXCEPT ![i] = @ + 1]
    /\ UNCHANGED <<spotify, startup, config, tidal, nextId, run, pc, tidal_playlists, index,
                   spotify_playlist, tidal_playlist, spotify_tracks, outcome, completed,
                   tidal_tracks, warnings, ops, history, probe>>

\* The search of the worker on track i answers or raises; on an answer
\* the worker loops over it (lines 79-81) and the task is done.
worker_finish(i) ==
    /\ pc = "call_async"
    /\ task[i] = "running"
    /\ \E response \in Responses(spotify_tracks[i]) :
           outcome' = [outcome EXCEPT ![i] = tidal_search(spotify_tracks[i], response)]
    /\ task' = [task EXCEPT ![i] = "done"]
    /\ completed' = Append(completed, i)
    /\ UNCHANGED <<spotify, startup, config, tidal, nextId, run, pc, tidal_playlists, index,
                   spotify_playlist, tidal_playlist, spotify_tracks, searches,
                   tidal_tracks, warnings, ops, history, probe>>

\* Variant: the results are taken as soon as one task has completed.
pool_any_done == task = << >> \/ \E i \in DOMAIN task : task[i] = "done"

\* pool.map blocks until every chunk is over (also when a search raised).
pool_drained == \A i \in DOMAIN task : chunk_over(i)

\* Variant: the results are stored in the order the tasks completed.
results_by_completion(o, c) == [i \in DOMAIN o |-> IF i <= Len(c) THEN o[c[i]] ELSE None]

\* Lines 94-95: pool.map gives the workers' results in the order of the
\* tracks, and results[index] = result keeps that order.
results(o, c) == [i \in DOMAIN o |-> o[i]]

\* Line 96: no worker raised, call_async returns the results.
call_async_return ==
    /\ pc = "call_async"
    /\ pool_drained
    /\ \A i \in DOMAIN outcome : outcome[i] # Raised
    /\ tidal_tracks' = results(outcome, completed)
    /\ pc' = "partition"
    /\ UNCHANGED <<spotify, startup, config, tidal, nextId, run, tidal_playlists, index,
                   spotify_playlist, tidal_playlist, spotify_tracks, task, outcome,
                   completed, searches, warnings, ops, history, probe>>

\* Line 94: pool.map re-raises a worker's exception; neither call_async nor
\* sync_playlist nor sync_list catches it.
call_async_raise ==
    /\ pc = "call_async"
    /\ pool_drained
    /\ \E i \in DOMAIN outcome : outcome[i] = Raised
    /\ pc' = "raised"
    /\ UNCHANGED <<spotify, startup, config, tidal, nextId, run, tidal_playlists, index,
                   spotify_playlist, tidal_playlist, spotify_tracks, task, outcome,
                   completed, searches, tidal_tracks, warnings, ops, history, probe>>

\* Variant: the ids are collected in reverse order.
RECURSIVE track_ids_reversed(_)
track_ids_reversed(list) ==
    IF list = << >> THEN << >>
    ELSE track_ids_reversed(Tail(list))
         \o (IF Truthy(Head(list)) THEN << Head(list).id >> ELSE << >>)

\* Lines 115-117: the ids of the results that are tracks, appended in order.
RECURSIVE track_ids(_)
track_ids(list) ==
    IF list = << >> THEN << >>
    ELSE (IF Truthy(Head(list)) THEN << Head(list).id >> ELSE << >>)
         \o track_ids(Tail(list))

\* Lines 118-119: "track n.{index + 1} not found" for each result that is
\* not; position is the 1-based position, which is the 0-based index + 1.
RECURSIVE not_found(_, _)
not_found(list, position) ==
    IF list = << >> THEN << >>
    ELSE (IF Truthy(Head(list)) THEN << >> ELSE << position >>)
         \o not_found(Tail(list), position + 1)

\* playlist.add(list(track_ids)), line 87: the tracks are added after those
\* the playlist holds.
add(tracks, ids) == tracks \o ids

\* Variant: the write is skipped when no track was found.
set_tidal_playlist_unless_empty ==
    /\ pc = "partition"
    /\ LET tidal_track_ids == track_ids(tidal_tracks)
       IN  IF tidal_track_ids = << >>
           THEN UNCHANGED <<tidal, ops>>
           ELSE /\ tidal' = [k \in DOMAIN tidal |->
                               IF tidal[k].id = tidal_playlist
                               THEN [tidal[k] EXCEPT !.tracks = add(@, tidal_track_ids)]
                               ELSE tidal[k]]
                /\ ops' = Append(ops, Op("add", tidal_playlist, tidal_track_ids))
    /\ warnings' = not_found(tidal_tracks, 1)
    /\ pc' = "synced"
    /\ UNCHANGED <<spotify, startup, config, nextId, run, tidal_playlists, index,
                   spotify_playlist, tidal_playlist, spotify_tracks, task, outcome,
                   completed, searches, tidal_tracks, history, probe>>

\* Lines 115-120 and 85-87: the partition of the results, then the one call
\* of set_tidal_playlist.
set_tidal_playlist ==
    /\ pc = "partition"
    /\ LET tidal_track_ids == track_ids(tidal_tracks)
       IN  /\ tidal' = [k \in DOMAIN tidal |->
                          IF tidal[k].id = tidal_playlist
                          THEN [tidal[k] EXCEPT !.tracks = add(@, tidal_track_ids)]
                          ELSE tidal[k]]
           /\ ops' = Append(ops, Op("add", tidal_playlist, tidal_track_ids))
    /\ warnings' = not_found(tidal_tracks, 1)
    /\ pc' = "synced"
    /\ UNCHANGED <<spotify, startup, config, nextId, run, tidal_playlists, index,
                   spotify_playlist, tidal_playlist, spotify_tracks, task, outcome,
                   completed, searches, tidal_tracks, history, probe>>

(***************************************************************************)
(* The pure functions applied to inputs drawn from bounded sets.           *)
(***************************************************************************)
NoProbe == [fn |-> "none"]

ProbeDurations == {198, 200, 202}

ProbeDurationsMs == {198000, 198001, 200000, 201999, 202000}

ProbeTidal ==
    { TidalTrack(1, n, a, al, d) :
        n \in {NameThreshold - 1, NameThreshold},
        a \in {ArtistThreshold - 1, ArtistThreshold},
        al \in {AlbumThreshold - 1, AlbumThreshold},
        d \in ProbeDurations }

ProbeSpotify == { [key |-> 1, duration_ms |-> ms] : ms \in ProbeDurationsMs }

apply_duration_match ==
    /\ \E d \in ProbeDurations, ms \in ProbeDurationsMs :
         probe' = [fn |-> "duration_match", duration |-> d, duration_ms |-> ms,
                   out |-> duration_match(TidalTrack(1, 0, 0, 0, d),
                                          [key |-> 1, duration_ms |-> ms], Tolerance)]
    /\ UNCHANGED syncVars

apply_match ==
    /\ \E t \in ProbeTidal, s \in ProbeSpotify :
         probe' = [fn |-> "match", tidal_track |-> t, spotify_track |-> s,
                   name_matching |-> name_match(t, s),
                   artist_matching |-> artist_match(t, s),
                   duration_matching |-> duration_match(t, s, Tolerance),
                   album_matching |-> album_match(t, s),
                   out |-> match(t, s)]
    /\ UNCHANGED syncVars

(***************************************************************************)
(* The specifications.                                                     *)
(***************************************************************************)
\* The login holds and the configuration has a list of playlist ids.
Started == [check_login |-> TRUE, sync_playlists_set |-> TRUE]

Idle ==
    /\ tidal_playlists = << >>
    /\ index = 1
    /\ spotify_tracks = << >>
    /\ task = << >>
    /\ outcome = << >>
    /\ completed = << >>
    /\ searches = << >>
    /\ tidal_tracks = << >>
    /\ warnings = << >>
    /\ ops = << >>
    /\ run = 1
    /\ history = << [tidal |-> tidal, pc |-> "start"] >>
    /\ probe = NoProbe

\* The program starts: the login holds or not, sync_playlists is null or
\* any list of at most MaxConfig ids (config stands for that list and is
\* empty when there is none), any of the initial destinations.
Init ==
    /\ spotify = Catalogue
    /\ startup \in [check_login : BOOLEAN, sync_playlists_set : BOOLEAN]
    /\ config \in IF startup.sync_playlists_set
                  THEN SeqsUpTo(DOMAIN Catalogue, MaxConfig)
                  ELSE { << >> }
    /\ tidal \in InitialTidal
    /\ nextId = Len(tidal) + 1
    /\ pc = "main"
    /\ spotify_playlist = 0
    /\ tidal_playlist = 0
    /\ Idle

Next ==
    \/ check_login_failed
    \/ sync_playlists_none
    \/ main
    \/ sync_list
    \/ get_playlist
    \/ playlist_unavailable
    \/ sync_list_return
    \/ delete_stale
    \/ create_playlist
    \/ get_tracks
    \/ \E i \in DOMAIN task : worker_start(i)
    \/ \E i \in DOMAIN task : worker_finish(i)
    \/ call_async_return
    \/ call_async_raise
    \/ set_tidal_playlist
    \/ next_playlist
    \/ rerun

Spec == Init /\ [][Next]_vars

\* sync_playlist is called on a source playlist with any track list of at
\* most MaxTracks tracks and a destination playlist with any prior contents.
InitSyncPlaylist ==
    /\ \E tracks \in SeqsUpTo(Tracks, MaxTracks) :
         spotify = << SpotifyPlaylist("Chill", "d1", tracks) >>
    /\ startup = Started
    /\ config = << 1 >>
    /\ \E prior \in PriorContents :
         tidal = << TidalPlaylist(1, "Chill", "d1", prior) >>
    /\ nextId = 2
    /\ pc = "sync_playlist"
    /\ spotify_playlist = 1
    /\ tidal_playlist = 1
    /\ Idle

NextSyncPlaylist ==
    \/ get_tracks
    \/ \E i \in DOMAIN task : worker_start(i)
    \/ \E i \in DOMAIN task : worker_finish(i)
    \/ call_async_return
    \/ call_async_raise
    \/ set_tidal_playlist

SpecSyncPlaylist == InitSyncPlaylist /\ [][NextSyncPlaylist]_vars

InitMatch ==
    /\ spotify = Catalogue
    /\ startup = Started
    /\ config = << >>
    /\ tidal = << >>
    /\ nextId = 1
    /\ pc = "match"
    /\ spotify_playlist = 0
    /\ tidal_playlist = 0
    /\ Idle

NextMatch ==
    \/ apply_duration_match
    \/ apply_match

SpecMatch == InitMatch /\ [][NextMatch]_vars

(***************************************************************************)
(* The claims.                                                             *)
(***************************************************************************)
\* What resolving each track of the catalogue must give, read off the
\* catalogue by hand: the id of the candidate, 0 for not found.
ExpectedId(spotify_track) ==
    CASE spotify_track = TrackA -> 11
      [] spotify_track = TrackB -> 0
      [] spotify_track = TrackC -> 0
      [] spotify_track = TrackD -> 15

FoundAt == {i \in DOMAIN spotify_tracks : ExpectedId(spotify_tracks[i]) # 0}

MissingAt == {i \in DOMAIN spotify_tracks : ExpectedId(spotify_tracks[i]) = 0}

\* The number of elements of S that are at most i: the rank of i in S.
Rank(S, i) == Cardinality({j \in S : j <= i})

\* C1: once call_async has returned, its result has one entry per source
\* track and entry i is the outcome of resolving source track i, whatever
\* the order in which the tasks completed.
C1_ResultsAligned ==
    pc \in {"partition", "synced"} =>
        /\ Len(tidal_tracks) = Len(spotify_tracks)
        /\ \A i \in DOMAIN spotify_tracks :
             IF ExpectedId(spotify_tracks[i]) = 0
             THEN tidal_tracks[i] = None
             ELSE /\ tidal_tracks[i] # None
                  /\ tidal_tracks[i].id = ExpectedId(spotify_tracks[i])

\* call_async returned after the tasks completed out of submission order,
\* with a found and a not-found outcome.
C1_Witness ==
    /\ pc = "partition"
    /\ Len(completed) >= 2
    /\ completed[1] > completed[2]
    /\ \E i, j \in DOMAIN tidal_tracks : tidal_tracks[i] = None /\ tidal_tracks[j] # None

AddsOf(r, k) == {n \in DOMAIN ops : ops[n].op = "add" /\ ops[n].run = r /\ ops[n].index = k}

\* C2: in every run the write is issued at most once for each configured
\* entry, and when it has been issued for the current entry, every track of
\* that playlist has a task and every task has completed: none is pending
\* or running; no search is in flight outside call_async.
C2_WriteOnceAfterDrain ==
    /\ \A r \in 1..run : \A k \in DOMAIN config : Cardinality(AddsOf(r, k)) <= 1
    /\ AddsOf(run, index) # {} =>
         /\ spotify_tracks = spotify[config[index]].tracks
         /\ DOMAIN task = DOMAIN spotify_tracks
         /\ \A i \in DOMAIN task : task[i] = "done"
    /\ (\E i \in DOMAIN task : task[i] = "running") => pc = "call_async"

\* The write has been issued for a playlist of three tracks.
C2_Witness ==
    /\ pc = "synced"
    /\ AddsOf(run, index) # {}
    /\ Len(spotify_tracks) = 3
    /\ Len(completed) = 3

\* C3: a search call that raised for one track is treated as not found and
\* does not abort the run: the run never dies with a raised search.
C3_SearchFailureIsNotFound ==
    (\E i \in DOMAIN outcome : outcome[i] = Raised) => pc # "raised"

\* C4: when sync_playlist has returned, the identifiers it wrote are the ids
\* of the found tracks in source order, the warnings name the 1-based
\* positions of the tracks not found, in order, and the write was issued
\* once; for the tracks A, B, C the list is <<11>> and the warnings 2 and 3.
C4_PlanAndWarnings ==
    pc = "synced" =>
        /\ Len(ops) = 1
        /\ ops[1].op = "add"
        /\ Len(ops[1].tracks) = Cardinality(FoundAt)
        /\ \A i \in FoundAt : ops[1].tracks[Rank(FoundAt, i)] = ExpectedId(spotify_tracks[i])
        /\ Len(warnings) = Cardinality(MissingAt)
        /\ \A i \in MissingAt : warnings[Rank(MissingAt, i)] = i
        /\ spotify_tracks = << TrackA, TrackB, TrackC >> =>
             ops[1].tracks = << 11 >> /\ warnings = << 2, 3 >>

\* The scenario of the tracks A, B, C has been synchronised.
C4_Witness ==
    /\ pc = "synced"
    /\ spotify_tracks = << TrackA, TrackB, TrackC >>
    /\ warnings = << 2, 3 >>
    /\ ops[1].tracks = << 11 >>

Named(playlists, name) == {k \in DOMAIN playlists : playlists[k].name = name}

\* The configured entries whose playlist is accessible and whose name no
\* other configured entry has.
ConfiguredOnce ==
    {k \in DOMAIN config :
        /\ spotify[config[k]].ok
        /\ \A j \in DOMAIN config :
             j # k /\ spotify[config[j]].ok
                => spotify[config[j]].name # spotify[config[k]].name}

\* The second run has ended, and so had the first, no search having raised.
RanTwice == run = 2 /\ pc = "done" /\ history[2].pc = "done"

\* After two complete runs the destination holds one playlist of this name,
\* with the tracks the playlist of this name last created held after the
\* first run.
OneAndSame(name) ==
    /\ Cardinality(Named(tidal, name)) = 1
    /\ LET after1 == history[2].tidal
           last1 == CHOOSE k \in Named(after1, name) : \A j \in Named(after1, name) : j <= k
       IN  \A k \in Named(tidal, name) : tidal[k].tracks = after1[last1].tracks

\* C5 as stated: two runs in a row on an unchanged source playlist leave
\* exactly one destination playlist of its name, with the same track list
\* after the second run as after the first, whatever the destination held.
C5_Original ==
    RanTwice => \A k \in ConfiguredOnce : OneAndSame(spotify[config[k]].name)

\* C5 as amended: the same, starting from a destination that holds at most
\* one playlist of that name.
C5_IdempotentFromAtMostOne ==
    RanTwice =>
        \A k \in ConfiguredOnce :
            Cardinality(Named(history[1].tidal, spotify[config[k]].name)) <= 1
                => OneAndSame(spotify[config[k]].name)

\* Two runs on the playlist of A, B, C, from a destination whose playlist of
\* that name held another track.
C5_Witness ==
    /\ RanTwice
    /\ config = << 1 >>
    /\ history[1].tidal = << TidalPlaylist(1, "Chill", "old", << 99 >>) >>
    /\ history[2].tidal = << TidalPlaylist(2, "Chill", "d1", << 11 >>) >>
    /\ tidal = << TidalPlaylist(3, "Chill", "d1", << 11 >>) >>

B2N(b) == IF b THEN 1 ELSE 0

ProbeSignals ==
      B2N(probe.name_matching) + B2N(probe.artist_matching)
    + B2N(probe.duration_matching) + B2N(probe.album_matching)

\* C6: the verdict of match is true exactly when at least three of the four
\* signals are true.
C6_ThreeOfFour ==
    probe.fn = "match" =>
        /\ ProbeSignals \in {0, 1, 2} => probe.out = FALSE
        /\ ProbeSignals \in {3, 4} => probe.out = TRUE

\* A pair with exactly two true signals, title and duration, and verdict false.
C6_Witness ==
    /\ probe.fn = "match"
    /\ probe.name_matching /\ probe.duration_matching
    /\ ~probe.artist_matching /\ ~probe.album_matching
    /\ probe.out = FALSE

OpsOf(r, k, op) == {n \in DOMAIN ops : ops[n].op = op /\ ops[n].run = r /\ ops[n].index = k}

\* No call to the destination is logged for an inaccessible id, and no part
\* of an iteration past the fetch is entered for one.
C7_NothingForUnavailable ==
    /\ \A n \in DOMAIN ops : spotify[config[ops[n].index]].ok
    /\ pc \in {"delete", "create", "sync_playlist", "call_async", "partition", "synced"} =>
         /\ index \in DOMAIN config
         /\ spotify[config[index]].ok
         /\ spotify_playlist = config[index]
    /\ pc = "done" =>
         \A k \in DOMAIN config :
            spotify[config[k]].ok =>
                /\ Cardinality(OpsOf(run, k, "create")) = 1
                /\ Cardinality(OpsOf(run, k, "add")) = 1

\* The step that handles an inaccessible id changes only the loop position.
C7_SkipStep ==
    (pc = "loop" /\ index <= Len(config) /\ ~spotify[config[index]].ok)
        => /\ pc' = "loop"
           /\ index' = index + 1
           /\ UNCHANGED <<tidal, nextId, tidal_playlists, ops, task, searches>>

\* C7: when the metadata fetch of a configured id fails, no destination call
\* and no search is issued for it, nothing but the loop position changes,
\* and every later accessible id of the list is still processed.
C7_UnavailableSkipped == []C7_NothingForUnavailable /\ [][C7_SkipStep]_vars

\* A run has ended in which an accessible id followed an inaccessible one
\* and was written.
C7_Witness ==
    /\ pc = "done"
    /\ Len(config) = 2
    /\ ~spotify[config[1]].ok
    /\ spotify[config[2]].ok
    /\ OpsOf(run, 2, "add") # {}
    /\ OpsOf(run, 1, "create") = {}

\* C8: after sync_playlist has returned, the destination playlist's track
\* list is exactly the list written, whatever the playlist held before.
C8_Overwrite ==
    pc = "synced" =>
        \A k \in DOMAIN tidal :
            tidal[k].id = tidal_playlist => tidal[k].tracks = ops[Len(ops)].tracks

Matching(i) ==
    {k \in DOMAIN SearchTracks(spotify_tracks[i]) :
        match(SearchTracks(spotify_tracks[i])[k], spotify_tracks[i])}

\* C9: a task has issued no search call while it waits for a worker and
\* exactly one from then on; its result, when the call answered, is None exactly when no
\* candidate of the answer satisfies match, and otherwise the candidate at
\* the least position that does.
C9_FirstMatch ==
    \A i \in DOMAIN task :
        /\ searches[i] = (IF task[i] = "pending" THEN 0 ELSE 1)
        /\ task[i] = "done" /\ outcome[i] # Raised =>
             /\ outcome[i] = None <=> Matching(i) = {}
             /\ outcome[i] # None =>
                  \E k \in Matching(i) :
                      /\ outcome[i] = SearchTracks(spotify_tracks[i])[k]
                      /\ \A j \in Matching(i) : k <= j

\* The track with three candidates resolved to its second, the first that
\* matches, a later one matching too.
C9_Witness ==
    \E i \in DOMAIN task :
        /\ task[i] = "done"
        /\ spotify_tracks[i] = TrackD
        /\ outcome[i] # None /\ outcome[i] # Raised
        /\ outcome[i].id = 15
        /\ Matching(i) = {2, 3}

ProbeDiff == probe.duration_ms - 1000 * probe.duration

\* C10: duration_match is true exactly when the two durations differ by
\* less than 2000 ms: false at exactly 2000 ms and true at 1999 ms, whether
\* the candidate is the longer or the shorter.
C10_DurationBoundary ==
    probe.fn = "duration_match" =>
        /\ probe.out = (-2000 < ProbeDiff /\ ProbeDiff < 2000)
        /\ ProbeDiff \in {-2000, 2000} => probe.out = FALSE
        /\ ProbeDiff \in {-1999, 1999} => probe.out = TRUE

\* A candidate exactly 2000 ms longer than the source does not match.
C10_Witness ==
    /\ probe.fn = "duration_match"
    /\ ProbeDiff = -2000
    /\ probe.out = FALSE

\* C11: when no source track resolves, a playlist of no tracks included,
\* sync_playlist still issues the write, once, to the playlist it was given
\* and with an empty identifier list.
C11_EmptyWrite ==
    pc = "synced" /\ FoundAt = {} =>
        /\ Len(ops) = 1
        /\ ops[1].op = "add"
        /\ ops[1].id = tidal_playlist
        /\ ops[1].tracks = << >>
        /\ Len(warnings) = Len(spotify_tracks)

\* A source playlist of no tracks has been synchronised.
C11_Witness ==
    /\ pc = "synced"
    /\ spotify_tracks = << >>
    /\ Len(ops) = 1
    /\ ops[1].tracks = << >>

(***************************************************************************)
(* Normalizer (simplify, lines 19-35).  A string is a sequence of          *)
(* one-character strings.  The inputs are ASCII, which unidecode leaves    *)
(* as they are.                                                            *)
(***************************************************************************)
UpperCase == << "A", "B", "C", "D", "E", "F", "G", "H", "I", "J", "K", "L", "M", "N", "O", "P", "Q", "R", "S", "T", "U", "V", "W", "X", "Y", "Z" >>

LowerCase == << "a", "b", "c", "d", "e", "f", "g", "h", "i", "j", "k", "l", "m", "n", "o", "p", "q", "r", "s", "t", "u", "v", "w", "x", "y", "z" >>

\* unidecode(input_string).lower(), line 30.
lower(s) ==
    [i \in DOMAIN s |->
        IF \E k \in DOMAIN UpperCase : UpperCase[k] = s[i]
        THEN LowerCase[CHOOSE k \in DOMAIN UpperCase : UpperCase[k] = s[i]]
        ELSE s[i]]

StartsWith(s, p) == Len(s) >= Len(p) /\ SubSeq(s, 1, Len(p)) = p

Drop(s, n) == SubSeq(s, n + 1, Len(s))

\* str.replace(old, new), line 32: the occurrences are found from the left
\* and do not overlap; what a replacement produces is not searched again.
RECURSIVE replace(_, _, _)
replace(s, old, new) ==
    IF s = << >> THEN s
    ELSE IF StartsWith(s, old) THEN new \o replace(Drop(s, Len(old)), old, new)
    ELSE << Head(s) >> \o replace(Tail(s), old, new)

\* The keys of replacements, lines 20-24, in the order of the dict.
JoinMarkers == << << " ", "x", " " >>, << " ", "v", "s", " " >>, << " ", "-", " " >> >>

Space == << " " >>

\* Lines 31-32.
replacements(s) ==
    replace(replace(replace(s, JoinMarkers[1], Space), JoinMarkers[2], Space),
            JoinMarkers[3], Space)

\* The alternatives of the first pattern, line 26.
EditionWords ==
    << << "o", "r", "i", "g", "i", "n", "a", "l", " ", "m", "i", "x" >>,
       << "e", "x", "t", "e", "n", "d", "e", "d", " ", "m", "i", "x" >>,
       << "r", "a", "d", "i", "o", " ", "e", "d", "i", "t" >>,
       << "m", "i", "x", "e", "d" >>,
       << "r", "e", "m", "a", "s", "t", "e", "r", "e", "d" >>,
       << "v", "e", "r", "s", "i", "o", "n" >> >>

\* The length of the match of pattern at the start of s, 0 when there is
\* none: the first alternative, in order, that s starts with.
word_len(s) ==
    IF \E k \in DOMAIN EditionWords : StartsWith(s, EditionWords[k])
    THEN Len(EditionWords[CHOOSE k \in DOMAIN EditionWords :
                 /\ StartsWith(s, EditionWords[k])
                 /\ \A j \in 1..(k - 1) : ~StartsWith(s, EditionWords[j])])
    ELSE 0

\* re.sub of the first pattern by '', lines 26 and 34: the matches are
\* found from the left and do not overlap.
RECURSIVE remove_words(_)
remove_words(s) ==
    IF s = << >> THEN s
    ELSE IF word_len(s) > 0 THEN remove_words(Drop(s, word_len(s)))
    ELSE << Head(s) >> \o remove_words(Tail(s))

\* The pattern of line 27 is compiled without flags: "." matches any
\* character but the line feed.
LineFeed == "\n"

\* The longest prefix of s without a line feed.
RECURSIVE line(_)
line(s) ==
    IF s = << >> \/ Head(s) = LineFeed THEN << >>
    ELSE << Head(s) >> \o line(Tail(s))

\* The markers of the second pattern, line 27: the letters of each and the
\* number of characters its unescaped "." stands for, any character but the
\* line feed.
DotMarkers == << [text |-> << "f", "t" >>, any |-> 1],
                [text |-> << "f", "e", "a", "t" >>, any |-> 1],
                [text |-> << "p", "r", "o", "d" >>, any |-> 1] >>

\* (ft.|feat.|prod.|[(]with)
ParenMarkers == DotMarkers \o << [text |-> << "(", "w", "i", "t", "h" >>, any |-> 0] >>

\* The lengths a marker of the list can match at the start of s.
marker_ends(s, markers) ==
    { Len(markers[k].text) + markers[k].any : k \in
        { k \in DOMAIN markers :
            /\ StartsWith(s, markers[k].text)
            /\ Len(s) >= Len(markers[k].text) + markers[k].any
            /\ markers[k].any = 1 => s[Len(markers[k].text) + 1] # LineFeed } }

\* The position of the last ")" of s, 0 when it has none.
last_paren(s) ==
    IF \E i \in DOMAIN s : s[i] = ")"
    THEN CHOOSE i \in DOMAIN s : s[i] = ")" /\ \A j \in DOMAIN s : s[j] = ")" => j <= i
    ELSE 0

\* The length of the match of the second pattern at the start of s, 0 when
\* there is none.  ".*" does not pass a line feed, so the match lies in the
\* first line of s.  First alternative: an optional "(", a marker, ".*"
\* and a ")": ".*" is greedy, so the match runs to the last ")" of the
\* line, which must come after the marker.  Second alternative: a marker
\* other than "(with" and ".*": the match runs to the end of the line.
clause_len(s) ==
    LET l == line(s)
    IN  IF \/ \E e \in marker_ends(l, ParenMarkers) : last_paren(l) > e
           \/ /\ StartsWith(l, << "(" >>)
              /\ \E e \in marker_ends(Tail(l), ParenMarkers) : last_paren(l) > e + 1
        THEN last_paren(l)
        ELSE IF marker_ends(l, DotMarkers) # {} THEN Len(l)
        ELSE 0

\* re.sub of the second pattern by '', lines 27 and 34.
RECURSIVE remove_clauses(_)
remove_clauses(s) ==
    IF s = << >> THEN s
    ELSE IF clause_len(s) > 0 THEN remove_clauses(Drop(s, clause_len(s)))
    ELSE << Head(s) >> \o remove_clauses(Tail(s))

\* The characters the third pattern keeps, line 28.
Kept ==
    { LowerCase[k] : k \in DOMAIN LowerCase }
        \cup {"0", "1", "2", "3", "4", "5", "6", "7", "8", "9"}
        \cup {"$", "!", "&", "?", ".", "'", "-", " "}

\* re.sub of the third pattern by '', lines 28 and 34.
strip(s) == SelectSeq(s, LAMBDA c : c \in Kept)

\* Lines 30-35.
simplify(input_string) ==
    strip(remove_clauses(remove_words(replacements(lower(input_string)))))

(***************************************************************************)
(* The search query of tidal_search (lines 76-78).  Here a Spotify track   *)
(* is [name, artists], artists a sequence of [name].                       *)
(***************************************************************************)
QueryLimit == 25

\* Variant: the length tested is that of the title as it came.
query_by_raw_length(spotify_track) ==
    IF Len(spotify_track.name) <= QueryLimit
    THEN simplify(spotify_track.artists[1].name) \o Space \o simplify(spotify_track.name)
    ELSE simplify(spotify_track.name)

query(spotify_track) ==
    IF Len(simplify(spotify_track.name)) <= QueryLimit
    THEN simplify(spotify_track.artists[1].name) \o Space \o simplify(spotify_track.name)
    ELSE simplify(spotify_track.name)

(***************************************************************************)
(* simplify and the query applied to strings put together from at most     *)
(* MaxTokens of the pieces below.                                          *)
(***************************************************************************)
MaxTokens == 3

Str_Song == << "S", "o", "n", "g" >>

Str_x == << " ", "x", " " >>

Str_a == << "a" >>

Str_ex == << "x" >>

Str_mixed == << "m", "i", "x", "e", "d" >>

Str_after == << "a", "f", "t", "e", "r" >>

Str_feat == << " ", "(", "f", "e", "a", "t", ".", " ", "X", ")" >>

Str_close == << ")" >>

Str_dash == << " ", "-", " " >>

Str_12 == << "a", "b", "c", "d", "e", "f", "g", "h", "i", "j", "k", "l" >>

Str_13 == << "n", "o", "p", "q", "r", "s", "t", "u", "v", "w", "x", "y", "z" >>

Str_lf == << "\n" >>

Tokens == { Str_Song, Str_x, Str_a, Str_ex, Str_mixed, Str_after, Str_feat, Str_close,
            Str_dash, Str_12, Str_13, Str_lf }

Str_Ab == << "A", "b" >>

Str_CxD == << "C", " ", "x", " ", "D" >>

Artists == { Str_Ab, Str_CxD }

RECURSIVE Concat(_)
Concat(pieces) ==
    IF pieces = << >> THEN << >> ELSE Head(pieces) \o Concat(Tail(pieces))

Strings == { Concat(pieces) : pieces \in SeqsUpTo(Tokens, MaxTokens) }

\* simplify(input_string) on the string drawn at the start.
apply_simplify ==
    /\ pc = "simplify"
    /\ probe.fn = "input"
    /\ probe' = [fn |-> "simplify", input_string |-> probe.name,
                 out |-> simplify(probe.name)]
    /\ UNCHANGED syncVars

\* Lines 76-78 on the track of the title and first artist drawn at the start.
apply_query ==
    /\ pc = "simplify"
    /\ probe.fn = "input"
    /\ probe' = [fn |-> "query", name |-> probe.name, artist |-> probe.artist,
                 out |-> query([name |-> probe.name,
                                artists |-> << [name |-> probe.artist] >>])]
    /\ UNCHANGED syncVars

InitSimplify ==
    /\ spotify = Catalogue
    /\ startup = Started
    /\ config = << >>
    /\ tidal = << >>
    /\ nextId = 1
    /\ pc = "simplify"
    /\ spotify_playlist = 0
    /\ tidal_playlist = 0
    /\ tidal_playlists = << >>
    /\ index = 1
    /\ spotify_tracks = << >>
    /\ task = << >>
    /\ outcome = << >>
    /\ completed = << >>
    /\ searches = << >>
    /\ tidal_tracks = << >>
    /\ warnings = << >>
    /\ ops = << >>
    /\ run = 1
    /\ history = << [tidal |-> tidal, pc |-> "start"] >>
    /\ \E name \in Strings, artist \in Artists :
         probe = [fn |-> "input", name |-> name, artist |-> artist]

NextSimplify ==
    \/ apply_simplify
    \/ apply_query

SpecSimplify == InitSimplify /\ [][NextSimplify]_vars


(***************************************************************************)
(* The claims about the Normalizer and the query.                          *)
(***************************************************************************)
\* C12: the query is the normalized title when that has more than 25
\* characters, and the normalized first artist, a space and the normalized
\* title when it has 25 or fewer; the length tested is the normalized
\* title's.  A title of 25 is prefixed, one of 26 is not, and a raw title of
\* 27 that normalizes to 25 is prefixed.
C12_Query ==
    probe.fn = "query" =>
        /\ Len(simplify(probe.name)) > 25 => probe.out = simplify(probe.name)
        /\ Len(simplify(probe.name)) <= 25 =>
             probe.out = simplify(probe.artist) \o << " " >> \o simplify(probe.name)
        /\ probe.name = Str_Song /\ probe.artist = Str_Ab =>
             probe.out = << "a", "b", " ", "s", "o", "n", "g" >>
        /\ probe.name = Str_12 \o Str_13 /\ probe.artist = Str_Ab =>
             probe.out = << "a", "b", " ", "a", "b", "c", "d", "e", "f", "g", "h", "i", "j", "k", "l", "n", "o", "p", "q", "r", "s", "t", "u", "v", "w", "x", "y", "z" >>
        /\ probe.name = Str_13 \o Str_13 =>
             probe.out = << "n", "o", "p", "q", "r", "s", "t", "u", "v", "w", "x", "y", "z", "n", "o", "p", "q", "r", "s", "t", "u", "v", "w", "x", "y", "z" >>
        /\ probe.name = Str_12 \o Str_dash \o Str_12 /\ probe.artist = Str_Ab =>
             probe.out = << "a", "b", " ", "a", "b", "c", "d", "e", "f", "g", "h", "i", "j", "k", "l", " ", "a", "b", "c", "d", "e", "f", "g", "h", "i", "j", "k", "l" >>

\* The query of a title of 27 characters that normalizes to 25.
C12_Witness ==
    /\ probe.fn = "query"
    /\ probe.name = Str_12 \o Str_dash \o Str_12
    /\ Len(probe.name) = 27
    /\ probe.artist = Str_Ab
    /\ Len(probe.out) = 28

\* C13: simplify is idempotent: applied to its own result, it gives that
\* result again.
C13_Idempotent ==
    probe.fn = "simplify" => simplify(probe.out) = probe.out


\* s has sub as a run of consecutive characters.
Contains(s, sub) ==
    \E i \in 0..(Len(s) - Len(sub)) : StartsWith(Drop(s, i), sub)

\* The markers of a credit clause read literally, the dot a full stop.
LiteralMarkers == << << "(", "f", "t", "." >>,
                     << "f", "e", "a", "t", "." >>,
                     << "p", "r", "o", "d", "." >>,
                     << "(", "w", "i", "t", "h" >> >>

HasMarker(s) ==
    \E m \in 1..Len(LiteralMarkers) : Contains(s, LiteralMarkers[m])

\* C14: for a title T without a marker, simplify(T + " (feat. X)") is
\* exactly simplify(T), no character such as a trailing space left over.
C14_FeatStripped ==
    probe.fn = "simplify" /\ ~HasMarker(lower(probe.input_string)) =>
        simplify(probe.input_string \o Str_feat) = probe.out

\* C19: the clause removal (second pattern of line 27) leaves a string
\* without any literal marker "(ft.", "feat.", "prod.", "(with" as it is.
C19_OnlyLiteralMarkers ==
    probe.fn = "simplify" =>
        LET s == remove_words(replacements(lower(probe.input_string)))
        IN  ~HasMarker(s) => remove_clauses(s) = s

(***************************************************************************)
(* The claims about the order of sync_list's calls to the destination.     *)
(***************************************************************************)
\* The destination held at most one playlist of each name when the program
\* was first started.
AtMostOnePerName ==
    \A k \in DOMAIN history[1].tidal :
        Cardinality(Named(history[1].tidal, history[1].tidal[k].name)) = 1

\* C15: every check for a same-named destination playlist reflects the
\* destination at that moment, so that after a run starting from at most
\* one playlist per name the destination holds exactly one playlist of each
\* processed source playlist's name, also when two configured ids have the
\* same name or one id is configured twice.
C15_OnePerProcessedName ==
    run = 1 /\ pc = "done" /\ AtMostOnePerName =>
        \A k \in DOMAIN config :
            spotify[config[k]].ok =>
                Cardinality(Named(tidal, spotify[config[k]].name)) = 1

\* The calls of one iteration are at most one delete, one create and one
\* write, in that order; the deleted playlist is one the run's listing has
\* under the source's name; the write goes to the id this iteration created,
\* which is not the deleted id nor the id any other iteration created.
C16_CallsInOrder ==
    \A r \in 1..run : \A k \in DOMAIN config :
        LET D == OpsOf(r, k, "delete")
            C == OpsOf(r, k, "create")
            A == OpsOf(r, k, "add")
        IN  /\ Cardinality(D) <= 1 /\ Cardinality(C) <= 1 /\ Cardinality(A) <= 1
            /\ \A d \in D :
                 /\ \A c \in C : d < c
                 /\ \E j \in DOMAIN history[r].tidal :
                      /\ history[r].tidal[j].id = ops[d].id
                      /\ history[r].tidal[j].name = spotify[config[k]].name
            /\ \A a \in A :
                 /\ \E c \in C : c < a /\ ops[a].id = ops[c].id
                 /\ \A d \in D : ops[a].id # ops[d].id
                 /\ \A n \in DOMAIN ops :
                      ops[n].op = "create" /\ n \notin C => ops[n].id # ops[a].id

\* The playlist just created is new and empty and has the source's name and
\* description; searches are made only between the create and the write of
\* the iteration, and the write comes when each track has been searched.
C16_CreateSearchWrite ==
    /\ pc = "sync_playlist" =>
         /\ tidal[Len(tidal)] = TidalPlaylist(tidal_playlist,
                                              spotify[config[index]].name,
                                              spotify[config[index]].description, << >>)
         /\ ops[Len(ops)] = Op("create", tidal_playlist, << >>)
         /\ \A j \in 1..(Len(tidal) - 1) : tidal[j].id # tidal_playlist
    /\ pc = "call_async" =>
         /\ OpsOf(run, index, "create") # {}
         /\ OpsOf(run, index, "add") = {}
    /\ pc = "synced" =>
         /\ OpsOf(run, index, "add") # {}
         /\ \A i \in DOMAIN spotify_tracks : searches[i] = 1

\* A search is made only while call_async runs.
C16_SearchStep == searches' # searches => pc' = "call_async"

\* C16: for each fetched source playlist the destination sees the delete of
\* the same-named stale playlist (if any), then the creation of a playlist
\* with the source's name and description, then the searches, then the one
\* write, which targets the playlist created in this iteration.
C16_DeleteCreateSearchWrite ==
    [](C16_CallsInOrder /\ C16_CreateSearchWrite) /\ [][C16_SearchStep]_vars

\* A run in which the second configured playlist replaced a listed playlist
\* and found tracks, after the first had been written.
C16_Witness ==
    /\ pc = "synced"
    /\ index = 2
    /\ OpsOf(run, 1, "add") # {}
    /\ OpsOf(run, 2, "delete") # {}
    /\ \E a \in OpsOf(run, 2, "add") : ops[a].tracks # << >>

\* C17: the configured playlists are handled one after the other: the calls
\* are logged in the order of the runs and of the configured positions,
\* none for a position not reached yet, and a resolution task is running
\* only inside call_async of the current position, after its create and
\* before its write; the fetch, delete and create of a position find no
\* task of another one running.
C17_Sequential ==
    /\ \A n, m \in DOMAIN ops :
         n < m => \/ ops[n].run < ops[m].run
                  \/ ops[n].run = ops[m].run /\ ops[n].index <= ops[m].index
    /\ \A n \in DOMAIN ops : ops[n].run < run \/ ops[n].index <= index
    /\ \A i \in DOMAIN task :
         task[i] = "running" =>
            /\ pc = "call_async"
            /\ spotify_tracks = spotify[config[index]].tracks
            /\ OpsOf(run, index, "create") # {}
            /\ OpsOf(run, index, "add") = {}
            /\ \A k \in DOMAIN config : k > index => OpsOf(run, k, "create") = {}
    /\ pc \in {"main", "sync_list", "loop", "delete", "create", "sync_playlist"} =>
         \A i \in DOMAIN task : task[i] # "running"

\* A task of the second playlist runs after the first playlist was written.
C17_Witness ==
    /\ pc = "call_async"
    /\ index = 2
    /\ OpsOf(run, 1, "add") # {}
    /\ \E i \in DOMAIN task : task[i] = "running"
    /\ \E i \in DOMAIN task : task[i] = "done"

\* C20: a delete is only issued against a playlist of the listing taken at
\* the start of its run, the first one of the source's name in it; at most
\* one delete is issued for each configured position; and no playlist is
\* deleted in the run that created it.
C20_DeleteOnlyListed ==
    /\ \A r \in 1..run : \A k \in DOMAIN config : Cardinality(OpsOf(r, k, "delete")) <= 1
    /\ \A d \in DOMAIN ops :
         ops[d].op = "delete" =>
            LET listing == history[ops[d].run].tidal
                found == stale(listing, spotify[config[ops[d].index]].name)
            IN  /\ Exists(listing, ops[d].id)
                /\ found # << >>
                /\ found[1].id = ops[d].id
                /\ \A c \in DOMAIN ops :
                     ops[c].op = "create" /\ ops[c].run = ops[d].run
                        => ops[c].id # ops[d].id

\* The second run deleted the playlist the first run had created.
C20_Witness ==
    /\ run = 2
    /\ \E d, c \in DOMAIN ops :
         /\ ops[d].op = "delete" /\ ops[d].run = 2
         /\ ops[c].op = "create" /\ ops[c].run = 1
         /\ ops[c].id = ops[d].id

====
